---------------------------- MODULE Spec2Model ----------------------------
(***************************************************************************)
(* Model of backendrunner.py: the ChessBrain session (start_game,          *)
(* process_move and their helpers), the rules capability it drives         *)
(* (chess.Board) and the engine capability it queries (Stockfish).         *)
(*                                                                         *)
(* Text is modelled as a sequence of one-character strings, so that        *)
(* strip/lower/split/indexing are computed as the code computes them.      *)
(***************************************************************************)
EXTENDS Integers, Sequences, FiniteSets, TLC

(***************************************************************************)
(* Bounds of the model.                                                    *)
(***************************************************************************)
\* Half-moves applied to the board since the last reset after which no
\* further move is submitted.
MaxPly == 20

(***************************************************************************)
(* Option values: Python's None and the values tested with "if x:".        *)
(***************************************************************************)
None == <<>>

WHITE == "white"
BLACK == "black"

Other(c) == IF c = WHITE THEN BLACK ELSE WHITE

(***************************************************************************)
(* Squares, as chess.SQUARES: a1 = 0, b1 = 1, ..., h8 = 63.                *)
(***************************************************************************)
Squares == 0..63

\* the value of chess.Board.ep_square when it is None
NoSquare == 0 - 1

FileOf(s) == s % 8
RankOf(s) == s \div 8
SqAt(f, r) == r * 8 + f

Abs(x) == IF x < 0 THEN -x ELSE x
Sign(x) == IF x < 0 THEN -1 ELSE IF x > 0 THEN 1 ELSE 0
Max(a, b) == IF a < b THEN b ELSE a

FileChars == <<"a", "b", "c", "d", "e", "f", "g", "h">>
RankChars == <<"1", "2", "3", "4", "5", "6", "7", "8">>
PromoChars == <<"q", "n", "r", "b">>

InSeq(c, s) == \E i \in 1..Len(s) : s[i] = c
IndexIn(c, s) == CHOOSE i \in 1..Len(s) : s[i] = c

\* chess.square_name
square_name(s) == <<FileChars[FileOf(s) + 1], RankChars[RankOf(s) + 1]>>

\* chess.parse_square, for a two-character name inside the board ranges
parse_square(n) == SqAt(IndexIn(n[1], FileChars) - 1, IndexIn(n[2], RankChars) - 1)

(***************************************************************************)
(* Pieces, by their chess.Piece symbol: upper case white, lower case       *)
(* black, "." for an empty square.                                         *)
(***************************************************************************)
WhitePieces == {"P", "N", "B", "R", "Q", "K"}
BlackPieces == {"p", "n", "b", "r", "q", "k"}

NoColor == "none"

ColorOf(p) == IF p \in WhitePieces THEN WHITE ELSE IF p \in BlackPieces THEN BLACK ELSE NoColor

TypeOf(p) ==
    CASE p \in {"P", "p"} -> "p"
      [] p \in {"N", "n"} -> "n"
      [] p \in {"B", "b"} -> "b"
      [] p \in {"R", "r"} -> "r"
      [] p \in {"Q", "q"} -> "q"
      [] p \in {"K", "k"} -> "k"
      [] OTHER -> "."

PieceOf(c, t) ==
    IF c = BLACK THEN t
    ELSE CASE t = "p" -> "P" [] t = "n" -> "N" [] t = "b" -> "B"
           [] t = "r" -> "R" [] t = "q" -> "Q" [] t = "k" -> "K"

BackRank == <<"r", "n", "b", "q", "k", "b", "n", "r">>

\* chess.Board() / chess.Board.reset(): the standard starting position
StartingBoard ==
    [pieces |-> [s \in Squares |->
                    CASE RankOf(s) = 0 -> PieceOf(WHITE, BackRank[FileOf(s) + 1])
                      [] RankOf(s) = 1 -> "P"
                      [] RankOf(s) = 6 -> "p"
                      [] RankOf(s) = 7 -> BackRank[FileOf(s) + 1]
                      [] OTHER -> "."],
     turn |-> WHITE,
     castling |-> {0, 7, 56, 63},
     ep |-> NoSquare,
     ply |-> 0]

(***************************************************************************)
(* The rules capability: attacks, legality, push, checkmate.               *)
(***************************************************************************)
\* the squares strictly between a and s on a common rank, file or diagonal
Between(a, s) ==
    LET df == FileOf(s) - FileOf(a)
        dr == RankOf(s) - RankOf(a)
        n == Max(Abs(df), Abs(dr))
    IN {SqAt(FileOf(a) + i * Sign(df), RankOf(a) + i * Sign(dr)) : i \in 1..(n - 1)}

Aligned(a, s, diag, straight) ==
    LET df == Abs(FileOf(s) - FileOf(a))
        dr == Abs(RankOf(s) - RankOf(a))
    IN /\ a # s
       /\ \/ diag /\ df = dr
          \/ straight /\ (df = 0 \/ dr = 0)

\* chess.Board.attacks_mask: does the piece on a attack square s
Attacks(pieces, a, s) ==
    LET p == pieces[a]
        t == TypeOf(p)
        df == Abs(FileOf(s) - FileOf(a))
        dr == RankOf(s) - RankOf(a)
    IN CASE t = "p" -> df = 1 /\ dr = (IF p = "P" THEN 1 ELSE -1)
         [] t = "n" -> (df = 1 /\ Abs(dr) = 2) \/ (df = 2 /\ Abs(dr) = 1)
         [] t = "k" -> a # s /\ df <= 1 /\ Abs(dr) <= 1
         [] t = "b" -> Aligned(a, s, TRUE, FALSE) /\ \A x \in Between(a, s) : pieces[x] = "."
         [] t = "r" -> Aligned(a, s, FALSE, TRUE) /\ \A x \in Between(a, s) : pieces[x] = "."
         [] t = "q" -> Aligned(a, s, TRUE, TRUE) /\ \A x \in Between(a, s) : pieces[x] = "."
         [] OTHER -> FALSE

\* chess.Board.is_attacked_by
is_attacked_by(pieces, c, s) ==
    \E a \in Squares : ColorOf(pieces[a]) = c /\ Attacks(pieces, a, s)

KingSquare(pieces, c) == CHOOSE s \in Squares : pieces[s] = PieceOf(c, "k")

\* is the king of colour c attacked
InCheck(pieces, c) == is_attacked_by(pieces, Other(c), KingSquare(pieces, c))

(***************************************************************************)
(* Moves, as chess.Move: from_square, to_square, promotion ("" for none).  *)
(***************************************************************************)
Move(f, t, pr) == [from |-> f, to |-> t, promotion |-> pr]

\* chess.Move.from_uci on a text of 4 or 5 characters; None when it raises
from_uci(text) ==
    IF /\ Len(text) \in {4, 5}
       /\ InSeq(text[1], FileChars) /\ InSeq(text[2], RankChars)
       /\ InSeq(text[3], FileChars) /\ InSeq(text[4], RankChars)
       /\ (Len(text) = 5 => InSeq(text[5], <<"p", "n", "b", "r", "q", "k">>))
       /\ SubSeq(text, 1, 2) # SubSeq(text, 3, 4)
    THEN <<Move(parse_square(SubSeq(text, 1, 2)), parse_square(SubSeq(text, 3, 4)),
                IF Len(text) = 5 THEN text[5] ELSE "")>>
    ELSE None

\* chess.Move.uci
uci(m) ==
    square_name(m.from) \o square_name(m.to)
      \o (IF m.promotion = "" THEN <<>> ELSE <<m.promotion>>)

HomeRank(c) == IF c = WHITE THEN 0 ELSE 7
PawnDir(c) == IF c = WHITE THEN 1 ELSE 0 - 1

\* chess.Board.generate_castling_moves: may the side to move castle on the
\* king side (kside) or on the queen side
CanCastle(b, kside) ==
    LET c == b.turn
        r == HomeRank(c)
        king == SqAt(4, r)
        rook == SqAt(IF kside THEN 7 ELSE 0, r)
        kingPath == IF kside THEN {SqAt(4, r), SqAt(5, r), SqAt(6, r)}
                    ELSE {SqAt(4, r), SqAt(3, r), SqAt(2, r)}
    IN /\ b.pieces[king] = PieceOf(c, "k")
       /\ rook \in b.castling
       /\ b.pieces[rook] = PieceOf(c, "r")
       /\ \A x \in Between(king, rook) : b.pieces[x] = "."
       /\ \A x \in kingPath : ~is_attacked_by(b.pieces, Other(c), x)

\* chess.Board._from_chess960: a king move from its home square onto the
\* rook's square is read as the castling move to the g- or c-file
CastlingSide(b, m) ==
    LET r == HomeRank(b.turn)
    IN IF TypeOf(b.pieces[m.from]) = "k" /\ m.from = SqAt(4, r) /\ m.promotion = ""
       THEN IF m.to \in {SqAt(6, r), SqAt(7, r)} /\ CanCastle(b, TRUE) THEN "k"
            ELSE IF m.to \in {SqAt(2, r), SqAt(0, r)} /\ CanCastle(b, FALSE) THEN "q"
            ELSE ""
       ELSE ""

\* chess.Board.generate_pseudo_legal_moves restricted to one pawn move
PawnPseudoLegal(b, m) ==
    LET c == b.turn
        d == PawnDir(c)
        df == Abs(FileOf(m.to) - FileOf(m.from))
        dr == RankOf(m.to) - RankOf(m.from)
    IN /\ (RankOf(m.to) = HomeRank(Other(c))) <=> (m.promotion # "")
       /\ \/ /\ df = 0 /\ dr = d /\ b.pieces[m.to] = "."
          \/ /\ df = 0 /\ dr = 2 * d
             /\ RankOf(m.from) = HomeRank(c) + d
             /\ b.pieces[m.to] = "."
             /\ b.pieces[SqAt(FileOf(m.from), RankOf(m.from) + d)] = "."
          \/ /\ df = 1 /\ dr = d
             /\ \/ ColorOf(b.pieces[m.to]) = Other(c)
                \/ m.to = b.ep /\ b.pieces[m.to] = "."

\* chess.Board.is_pseudo_legal
is_pseudo_legal(b, m) ==
    LET p == b.pieces[m.from]
    IN /\ ColorOf(p) = b.turn
       /\ m.promotion # "" => (TypeOf(p) = "p" /\ RankOf(m.to) = HomeRank(Other(b.turn)))
       /\ \/ CastlingSide(b, m) # ""
          \/ /\ ColorOf(b.pieces[m.to]) # b.turn
             /\ IF TypeOf(p) = "p" THEN PawnPseudoLegal(b, m)
                ELSE Attacks(b.pieces, m.from, m.to)

\* the placement of the pieces after move m (chess.Board.push, board part)
PiecesAfter(b, m) ==
    LET c == b.turn
        r == HomeRank(c)
        p == b.pieces[m.from]
        side == CastlingSide(b, m)
        isEp == /\ TypeOf(p) = "p" /\ m.to = b.ep
                /\ FileOf(m.to) # FileOf(m.from) /\ b.pieces[m.to] = "."
        placed == IF m.promotion # "" THEN PieceOf(c, m.promotion) ELSE p
    IN IF side # ""
       THEN [s \in Squares |->
               CASE s = SqAt(IF side = "k" THEN 6 ELSE 2, r) -> PieceOf(c, "k")
                 [] s = SqAt(IF side = "k" THEN 5 ELSE 3, r) -> PieceOf(c, "r")
                 [] s = SqAt(4, r) -> "."
                 [] s = SqAt(IF side = "k" THEN 7 ELSE 0, r) -> "."
                 [] OTHER -> b.pieces[s]]
       ELSE [s \in Squares |->
               CASE s = m.to -> placed
                 [] s = m.from -> "."
                 [] isEp /\ s = SqAt(FileOf(m.to), RankOf(m.from)) -> "."
                 [] OTHER -> b.pieces[s]]

\* chess.Board.is_legal: pseudo-legal and not leaving the own king attacked
is_legal(b, m) ==
    /\ is_pseudo_legal(b, m)
    /\ ~InCheck(PiecesAfter(b, m), b.turn)

\* chess.Board.push
push(b, m) ==
    LET c == b.turn
        p == b.pieces[m.from]
        rank == {SqAt(f, HomeRank(c)) : f \in 0..7}
    IN [pieces |-> PiecesAfter(b, m),
        turn |-> Other(c),
        castling |-> (b.castling \ {m.from, m.to})
                        \ (IF TypeOf(p) = "k" THEN rank ELSE {}),
        ep |-> IF TypeOf(p) = "p" /\ Abs(RankOf(m.to) - RankOf(m.from)) = 2
               THEN SqAt(FileOf(m.from), RankOf(m.from) + PawnDir(c))
               ELSE NoSquare,
        ply |-> b.ply + 1]

Only(S) == CHOOSE x \in S : TRUE

\* the promotion letters a move from a to s may carry
PromotionsFor(b, a, s) ==
    IF TypeOf(b.pieces[a]) = "p" /\ RankOf(s) = HomeRank(Other(b.turn))
    THEN {"q", "n", "r", "b"} ELSE {""}

\* is some move of the piece on a legal
CanMove(b, a) ==
    \E s \in Squares \ {a} :
        /\ ColorOf(b.pieces[s]) # b.turn
        /\ is_legal(b, Move(a, s, Only(PromotionsFor(b, a, s))))

\* any(chess.Board.legal_moves): castling needs a legal king step, so the
\* moves onto squares not held by the mover decide it
has_legal_move(b) ==
    \E a \in Squares : ColorOf(b.pieces[a]) = b.turn /\ CanMove(b, a)

\* a legal move of b, which has one
some_legal_move(b) ==
    LET a == CHOOSE x \in Squares : ColorOf(b.pieces[x]) = b.turn /\ CanMove(b, x)
        s == CHOOSE y \in Squares \ {a} :
                 /\ ColorOf(b.pieces[y]) # b.turn
                 /\ is_legal(b, Move(a, y, Only(PromotionsFor(b, a, y))))
    IN Move(a, s, Only(PromotionsFor(b, a, s)))

\* chess.Board.is_checkmate
is_checkmate(b) ==
    /\ InCheck(b.pieces, b.turn)
    /\ ~has_legal_move(b)


(***************************************************************************)
(* Text: str.strip, str.lower, str.split, str.startswith, sorted.          *)
(***************************************************************************)
Whitespace == {" ", "\t", "\n"}

UpperChars == <<"A", "B", "C", "D", "E", "F", "G", "H", "I", "J", "K", "L", "M",
                "N", "O", "P", "Q", "R", "S", "T", "U", "V", "W", "X", "Y", "Z">>
LowerChars == <<"a", "b", "c", "d", "e", "f", "g", "h", "i", "j", "k", "l", "m",
                "n", "o", "p", "q", "r", "s", "t", "u", "v", "w", "x", "y", "z">>
UpperSet == {UpperChars[i] : i \in 1..26}

\* str.lower
lower(t) == [i \in 1..Len(t) |->
               IF t[i] \in UpperSet THEN LowerChars[IndexIn(t[i], UpperChars)] ELSE t[i]]

RECURSIVE FirstKept(_, _)
FirstKept(t, i) == IF i > Len(t) \/ t[i] \notin Whitespace THEN i ELSE FirstKept(t, i + 1)

RECURSIVE LastKept(_, _)
LastKept(t, i) == IF i < 1 \/ t[i] \notin Whitespace THEN i ELSE LastKept(t, i - 1)

\* str.strip
strip(t) == SubSeq(t, FirstKept(t, 1), LastKept(t, Len(t)))

\* str.startswith
startswith(t, prefix) == Len(t) >= Len(prefix) /\ SubSeq(t, 1, Len(prefix)) = prefix

RECURSIVE FindSep(_, _, _)
FindSep(t, i, seps) ==
    IF i > Len(t) \/ t[i] \in seps THEN i ELSE FindSep(t, i + 1, seps)

RECURSIVE SplitFrom(_, _, _)
SplitFrom(t, i, seps) ==
    LET j == FindSep(t, i, seps)
    IN IF j > Len(t) THEN <<SubSeq(t, i, Len(t))>>
       ELSE <<SubSeq(t, i, j - 1)>> \o SplitFrom(t, j + 1, seps)

\* str.split(sep): every occurrence of the separator splits, empty pieces kept
split(t, sep) == SplitFrom(t, 1, {sep})

\* str.split(): split on runs of whitespace, no empty pieces
split_whitespace(t) == SelectSeq(SplitFrom(t, 1, Whitespace), LAMBDA x : x # <<>>)

\* the valid square names in Python's string order: a1, a2, ..., a8, b1, ..., h8
NamesInOrder == [k \in 1..64 |-> <<FileChars[(k - 1) \div 8 + 1], RankChars[((k - 1) % 8) + 1]>>]

\* n, as many times as it occurs in l
Copies(l, n) == SelectSeq(l, LAMBDA x : x = n)

\* sorted(), on a list of valid square names (duplicates kept)
sorted(l) ==
    LET RECURSIVE Build(_)
        Build(k) == IF k > 64 THEN <<>> ELSE Copies(l, NamesInOrder[k]) \o Build(k + 1)
    IN IF Cardinality({l[i] : i \in 1..Len(l)}) = Len(l)
       THEN SelectSeq(NamesInOrder, LAMBDA n : \E i \in 1..Len(l) : l[i] = n)
       ELSE Build(1)

ToSet(l) == {l[i] : i \in 1..Len(l)}

(***************************************************************************)
(* The signals of the request/response surface.                            *)
(***************************************************************************)
Empty == <<>>
InvalidSignal == <<"I", "n", "v", "a", "l", "i", "d">>
TerminalSignal == <<"G", "a", "m", "e", " ", "O", "v", "e", "r">>

(***************************************************************************)
(* ChessBrain helpers.                                                     *)
(***************************************************************************)
\* a shape test that looks at the length only
is_uci_move_LengthOnly(text0) == Len(lower(strip(text0))) \in {4, 5}

\* ChessBrain._is_uci_move
is_uci_move(text0) ==
    LET text == lower(strip(text0))
    IN \/ /\ Len(text) = 4
          /\ InSeq(text[1], FileChars) /\ InSeq(text[2], RankChars)
          /\ InSeq(text[3], FileChars) /\ InSeq(text[4], RankChars)
       \/ /\ Len(text) = 5
          /\ InSeq(text[1], FileChars) /\ InSeq(text[2], RankChars)
          /\ InSeq(text[3], FileChars) /\ InSeq(text[4], RankChars)
          /\ InSeq(text[5], PromoChars)

WhitePrefix == <<"w", "h", "i", "t", "e", ":">>
BlackPrefix == <<"b", "l", "a", "c", "k", ":">>

valid_square(n) == Len(n) = 2 /\ InSeq(n[1], FileChars) /\ InSeq(n[2], RankChars)

\* the squares listed by the last part that starts with the prefix
\* (lines 159-166: each matching part overwrites the list)
SquaresOfParts(parts, prefix) ==
    LET hits == {i \in 1..Len(parts) : startswith(strip(parts[i]), prefix)}
    IN IF hits = {} THEN <<>>
       ELSE LET part == strip(parts[CHOOSE i \in hits : \A j \in hits : j <= i])
                squares_str == split(part, ":")[2]
                items == split(squares_str, ",")
            IN SelectSeq([i \in 1..Len(items) |-> strip(items[i])], LAMBDA x : x # <<>>)

\* ChessBrain._parse_positions
parse_positions(txt0) ==
    LET txt == lower(strip(txt0))
        parts == IF InSeq(";", txt) THEN split(txt, ";") ELSE split_whitespace(txt)
        white_squares == SelectSeq(SquaresOfParts(parts, WhitePrefix), valid_square)
        black_squares == SelectSeq(SquaresOfParts(parts, BlackPrefix), valid_square)
    IN [white |-> sorted(white_squares), black |-> sorted(black_squares)]

\* the squares in the order of their names: a1, a2, ..., a8, b1, ..., h8
SquaresByName == [k \in 1..64 |-> SqAt((k - 1) \div 8, (k - 1) % 8)]

NamesOf(sqs) == [i \in 1..Len(sqs) |-> square_name(sqs[i])]

\* ChessBrain._get_piece_snapshot (chess.Board.piece_map read square by square)
get_piece_snapshot(b) ==
    [white |-> NamesOf(SelectSeq(SquaresByName, LAMBDA x : ColorOf(b.pieces[x]) = WHITE)),
     black |-> NamesOf(SelectSeq(SquaresByName, LAMBDA x : ColorOf(b.pieces[x]) = BLACK))]

\* ChessBrain._is_drastic_change (current_pos is never None at its call)
is_drastic_change(new_pos, current_pos) ==
    LET current_white == ToSet(current_pos.white)
        current_black == ToSet(current_pos.black)
        new_white == ToSet(new_pos.white)
        new_black == ToSet(new_pos.black)
        total_removed == Cardinality(current_white \ new_white)
                           + Cardinality(current_black \ new_black)
        total_added == Cardinality(new_white \ current_white)
                         + Cardinality(new_black \ current_black)
        current_count == Len(current_pos.white) + Len(current_pos.black)
        new_count == Len(new_pos.white) + Len(new_pos.black)
    IN IF total_removed = 1 /\ total_added = 2 THEN TRUE
       ELSE Abs(current_count - new_count) > 2

\* _deduce_move_from_snapshot without the tests of lines 246 and 250: a capture
\* inferred wherever the opponent lost a square
deduce_move_from_snapshot_AnyCapture(new_pos, current_pos) ==
    LET current_white == ToSet(current_pos.white)
        current_black == ToSet(current_pos.black)
        new_white == ToSet(new_pos.white)
        new_black == ToSet(new_pos.black)
        white_removed == current_white \ new_white
        white_added == new_white \ current_white
        black_removed == current_black \ new_black
        black_added == new_black \ current_black
    IN CASE white_removed = {<<"e", "1">>, <<"h", "1">>}
              /\ white_added = {<<"g", "1">>, <<"f", "1">>} -> <<"e", "1", "g", "1">>
         [] white_removed = {<<"e", "1">>, <<"a", "1">>}
              /\ white_added = {<<"c", "1">>, <<"d", "1">>} -> <<"e", "1", "c", "1">>
         [] black_removed = {<<"e", "8">>, <<"h", "8">>}
              /\ black_added = {<<"g", "8">>, <<"f", "8">>} -> <<"e", "8", "g", "8">>
         [] black_removed = {<<"e", "8">>, <<"a", "8">>}
              /\ black_added = {<<"c", "8">>, <<"d", "8">>} -> <<"e", "8", "c", "8">>
         [] OTHER ->
            IF /\ Cardinality(white_removed) = 1 /\ Cardinality(white_added) = 1
               /\ black_removed = {} /\ black_added = {}
            THEN Only(white_removed) \o Only(white_added)
            ELSE IF /\ Cardinality(black_removed) = 1 /\ Cardinality(black_added) = 1
                    /\ white_removed = {} /\ white_added = {}
            THEN Only(black_removed) \o Only(black_added)
            ELSE IF /\ Cardinality(white_removed) = 1 /\ Cardinality(white_added) = 1
                    /\ Cardinality(black_removed) = 1 /\ black_added = {}
            THEN Only(white_removed) \o Only(white_added)
            ELSE IF /\ Cardinality(black_removed) = 1 /\ Cardinality(black_added) = 1
                    /\ Cardinality(white_removed) = 1 /\ white_added = {}
            THEN Only(black_removed) \o Only(black_added)
            ELSE None

\* ChessBrain._deduce_move_from_snapshot; None when no pattern matches
deduce_move_from_snapshot(new_pos, current_pos) ==
    LET current_white == ToSet(current_pos.white)
        current_black == ToSet(current_pos.black)
        new_white == ToSet(new_pos.white)
        new_black == ToSet(new_pos.black)
        white_removed == current_white \ new_white
        white_added == new_white \ current_white
        black_removed == current_black \ new_black
        black_added == new_black \ current_black
    IN CASE white_removed = {<<"e", "1">>, <<"h", "1">>}
              /\ white_added = {<<"g", "1">>, <<"f", "1">>} -> <<"e", "1", "g", "1">>
         [] white_removed = {<<"e", "1">>, <<"a", "1">>}
              /\ white_added = {<<"c", "1">>, <<"d", "1">>} -> <<"e", "1", "c", "1">>
         [] black_removed = {<<"e", "8">>, <<"h", "8">>}
              /\ black_added = {<<"g", "8">>, <<"f", "8">>} -> <<"e", "8", "g", "8">>
         [] black_removed = {<<"e", "8">>, <<"a", "8">>}
              /\ black_added = {<<"c", "8">>, <<"d", "8">>} -> <<"e", "8", "c", "8">>
         [] OTHER ->
            IF /\ Cardinality(white_removed) = 1 /\ Cardinality(white_added) = 1
               /\ black_removed = {} /\ black_added = {}
            THEN Only(white_removed) \o Only(white_added)
            ELSE IF /\ Cardinality(black_removed) = 1 /\ Cardinality(black_added) = 1
                    /\ white_removed = {} /\ white_added = {}
            THEN Only(black_removed) \o Only(black_added)
            ELSE IF /\ Cardinality(white_removed) = 1 /\ Cardinality(white_added) = 1
                    /\ Cardinality(black_removed) = 1 /\ black_added = {}
                    /\ Only(white_added) \in black_removed
            THEN Only(white_removed) \o Only(white_added)
            ELSE IF /\ Cardinality(black_removed) = 1 /\ Cardinality(black_added) = 1
                    /\ Cardinality(white_removed) = 1 /\ white_added = {}
                    /\ Only(black_added) \in white_removed
            THEN Only(black_removed) \o Only(black_added)
            ELSE None

(***************************************************************************)
(* The games explored.  The external party and the engine both draw their  *)
(* moves for the position after n half-moves from the (n+1)-th moves of    *)
(* these games; whatever is not legal in the position at hand is refused   *)
(* by the code (external party) or not offered (engine).                   *)
(***************************************************************************)
\* 1. f3 e5 2. g4 Qh4#
FoolsMate ==
    <<<<"f", "2", "f", "3">>,
      <<"e", "7", "e", "5">>,
      <<"g", "2", "g", "4">>,
      <<"d", "8", "h", "4">>>>

\* 1. e3 a5 2. Qh5 Ra6 3. Qxa5 h5 4. h4 Rah6 5. Qxc7 f6 6. Qxd7+ Kf7
\* 7. Qxb7 Qd3 8. Qxb8 Qh7 9. Qxc8 Kg6 10. Qe6 stalemate
LoydStalemate ==
    <<<<"e", "2", "e", "3">>,
      <<"a", "7", "a", "5">>,
      <<"d", "1", "h", "5">>,
      <<"a", "8", "a", "6">>,
      <<"h", "5", "a", "5">>,
      <<"h", "7", "h", "5">>,
      <<"h", "2", "h", "4">>,
      <<"a", "6", "h", "6">>,
      <<"a", "5", "c", "7">>,
      <<"f", "7", "f", "6">>,
      <<"c", "7", "d", "7">>,
      <<"e", "8", "f", "7">>,
      <<"d", "7", "b", "7">>,
      <<"d", "8", "d", "3">>,
      <<"b", "7", "b", "8">>,
      <<"d", "3", "h", "7">>,
      <<"b", "8", "c", "8">>,
      <<"f", "7", "g", "6">>,
      <<"c", "8", "e", "6">>>>

Games == {FoolsMate, LoydStalemate}

BookTexts(b) == {g[b.ply + 1] : g \in {h \in Games : Len(h) > b.ply}}

(***************************************************************************)
(* The engine capability: Stockfish.get_best_move_time on the position     *)
(* last set.  It answers with a legal move of that position, or with None  *)
(* when the position has no legal move.                                    *)
(***************************************************************************)
EngineReplies(b) ==
    LET book == {t \in BookTexts(b) : is_legal(b, from_uci(t)[1])}
    IN IF book # {} THEN book
       ELSE IF ~has_legal_move(b) THEN {None}
       ELSE {uci(some_legal_move(b))}

(***************************************************************************)
(* The session: the fields of ChessBrain, and what the last request was,   *)
(* what it returned, which positions it handed to the engine and which     *)
(* moves it pushed.                                                        *)
(***************************************************************************)
VARIABLES board, app_color, game_active, last_position_snapshot,
          first_move_received, request, response, queried, pushed,
          inflight, timers, call

session == <<board, app_color, game_active, last_position_snapshot, first_move_received>>
vars == <<board, app_color, game_active, last_position_snapshot,
          first_move_received, request, response, queried, pushed,
          inflight, timers, call>>

\* the request threads of the server (line 282: app.run serves each request on
\* a thread of its own); a thread is idle or waits for the engine's answer
Threads == {1, 2}
Idle == [pc |-> "idle", op |-> "none", body |-> <<>>, fen |-> None]

\* no helper applied on its own
NoCall ==
    [stage |-> "none", txt |-> <<>>,
     new_pos |-> [white |-> <<>>, black |-> <<>>],
     current_pos |-> [white |-> <<>>, black |-> <<>>],
     drastic |-> FALSE, move |-> <<>>]

\* ChessBrain.__init__, before any request
Init ==
    /\ board = StartingBoard
    /\ app_color = NoColor
    /\ game_active = FALSE
    /\ last_position_snapshot = None
    /\ first_move_received = FALSE
    /\ request = [op |-> "init", body |-> <<>>]
    /\ response = <<>>
    /\ queried = <<>>
    /\ pushed = <<>>
    /\ inflight = [t \in Threads |-> Idle]
    /\ timers = 0
    /\ call = NoCall

\* _get_best_move returning the engine's move without pushing it
get_best_move_NoPush(b, act) ==
    {[board |-> b, game_active |-> act, ret |-> best_move, pushed |-> <<>>]
       : best_move \in EngineReplies(b)}

\* _get_best_move without the checkmate test of lines 141-143
get_best_move_KeepsActive(b, act) ==
    {IF best_move # None /\ is_legal(b, from_uci(best_move)[1])
     THEN [board |-> push(b, from_uci(best_move)[1]),
           game_active |-> act,
           ret |-> best_move,
           pushed |-> <<from_uci(best_move)[1]>>]
     ELSE [board |-> b, game_active |-> act, ret |-> None, pushed |-> <<>>]
       : best_move \in EngineReplies(b)}

\* ChessBrain._get_best_move on board b with the activity flag act: the
\* possible (board, flag, returned value) after it
get_best_move(b, act) ==
    {IF best_move # None /\ is_legal(b, from_uci(best_move)[1])
     THEN LET nb == push(b, from_uci(best_move)[1])
          IN [board |-> nb,
              game_active |-> IF is_checkmate(nb) THEN FALSE ELSE act,
              ret |-> best_move,
              pushed |-> <<from_uci(best_move)[1]>>]
     ELSE [board |-> b, game_active |-> act, ret |-> None, pushed |-> <<>>]
       : best_move \in EngineReplies(b)}

Unchanged(resp) ==
    [board |-> board, app_color |-> app_color, game_active |-> game_active,
     last_position_snapshot |-> last_position_snapshot,
     first_move_received |-> first_move_received,
     response |-> resp, queried |-> <<>>, pushed |-> <<>>]

WhiteText == <<"w", "h", "i", "t", "e">>
BlackText == <<"b", "l", "a", "c", "k">>

\* a validation that lets every colour through
ValidColor_Any(color) == TRUE

\* line 36: the colours start_game accepts
ValidColor(color) == color \in {WhiteText, BlackText}

\* the engine opening for the wrong colour
OpensGame_WrongSide(col) == col = BLACK

\* lines 45-49: the automated side opens when it plays white
OpensGame(col) == col = WHITE

\* start_game without the board.reset() of line 40
start_game_KeepsBoard(color0) ==
    LET color == lower(strip(color0))
        col == IF color = WhiteText THEN WHITE ELSE BLACK
        reset == [board |-> board, app_color |-> col, game_active |-> TRUE,
                  last_position_snapshot |-> <<get_piece_snapshot(board)>>,
                  first_move_received |-> FALSE,
                  response |-> Empty, queried |-> <<>>, pushed |-> <<>>]
    IN IF ~ValidColor(color) THEN {Unchanged(InvalidSignal)}
       ELSE IF OpensGame(col)
       THEN {[reset EXCEPT !.board = r.board, !.game_active = r.game_active,
                           !.response = IF r.ret # None THEN r.ret ELSE TerminalSignal,
                           !.queried = <<board>>, !.pushed = r.pushed]
               : r \in get_best_move(board, TRUE)}
       ELSE {reset}

\* start_game without the game_active = True of line 41
start_game_Inactive(color0) ==
    LET color == lower(strip(color0))
        col == IF color = WhiteText THEN WHITE ELSE BLACK
        reset == [board |-> StartingBoard, app_color |-> col, game_active |-> game_active,
                  last_position_snapshot |-> <<get_piece_snapshot(StartingBoard)>>,
                  first_move_received |-> FALSE,
                  response |-> Empty, queried |-> <<>>, pushed |-> <<>>]
    IN IF ~ValidColor(color) THEN {Unchanged(InvalidSignal)}
       ELSE IF OpensGame(col)
       THEN {[reset EXCEPT !.board = r.board, !.game_active = r.game_active,
                           !.response = IF r.ret # None THEN r.ret ELSE TerminalSignal,
                           !.queried = <<StartingBoard>>, !.pushed = r.pushed]
               : r \in get_best_move(StartingBoard, game_active)}
       ELSE {reset}

\* ChessBrain.start_game: the possible outcomes
start_game(color0) ==
    LET color == lower(strip(color0))
        col == IF color = WhiteText THEN WHITE ELSE BLACK
        reset == [board |-> StartingBoard, app_color |-> col, game_active |-> TRUE,
                  last_position_snapshot |-> <<get_piece_snapshot(StartingBoard)>>,
                  first_move_received |-> FALSE,
                  response |-> Empty, queried |-> <<>>, pushed |-> <<>>]
    IN IF ~ValidColor(color) THEN {Unchanged(InvalidSignal)}
       ELSE IF OpensGame(col)
       THEN {[reset EXCEPT !.board = r.board, !.game_active = r.game_active,
                           !.response = IF r.ret # None THEN r.ret ELSE TerminalSignal,
                           !.queried = <<StartingBoard>>, !.pushed = r.pushed]
               : r \in get_best_move(StartingBoard, TRUE)}
       ELSE {reset}

\* the session staying active after the submitted move gave checkmate
ApplyAndReply_NoDeactivate(move) ==
    LET nb == push(board, move)
    IN {[Unchanged(Empty) EXCEPT
           !.board = r.board,
           !.game_active = r.game_active,
           !.last_position_snapshot = <<get_piece_snapshot(nb)>>,
           !.response = IF r.ret # None THEN r.ret ELSE Empty,
           !.queried = <<nb>>, !.pushed = <<move>> \o r.pushed]
          : r \in get_best_move(nb, game_active)}

\* lines 62-73 and 104-118: the move is pushed, the snapshot refreshed, then
\* checkmate ends the session or the engine is asked for its reply
ApplyAndReply(move) ==
    LET nb == push(board, move)
        after == [Unchanged(Empty) EXCEPT
                    !.board = nb,
                    !.last_position_snapshot = <<get_piece_snapshot(nb)>>,
                    !.pushed = <<move>>]
    IN IF is_checkmate(nb) THEN {[after EXCEPT !.game_active = FALSE]}
       ELSE {[after EXCEPT !.board = r.board, !.game_active = r.game_active,
                           !.response = IF r.ret # None THEN r.ret ELSE Empty,
                           !.queried = <<nb>>, !.pushed = <<move>> \o r.pushed]
               : r \in get_best_move(nb, game_active)}

\* the fast path answering an illegal move like the slow path does
FastPath_IllegalIsEmpty(incoming) ==
    LET move == from_uci(lower(strip(incoming)))
    IN IF move = None THEN {Unchanged(InvalidSignal)}
       ELSE IF is_legal(board, move[1]) THEN ApplyAndReply(move[1])
       ELSE {Unchanged(Empty)}

\* lines 58-77: the body has coordinate-move shape
FastPath(incoming) ==
    LET move == from_uci(lower(strip(incoming)))
    IN IF move = None THEN {Unchanged(InvalidSignal)}
       ELSE IF is_legal(board, move[1]) THEN ApplyAndReply(move[1])
       ELSE {Unchanged(InvalidSignal)}

\* a rejected snapshot answered as an error
Rejected_AsInvalid(positions) == {Unchanged(InvalidSignal)}

\* a rejected snapshot kept as the stored snapshot
Rejected_Recorded(positions) ==
    {[Unchanged(Empty) EXCEPT !.last_position_snapshot = <<positions>>]}

\* the return "" of lines 88, 92, 97, 107 and 109: the snapshot tells nothing
Rejected(positions) == {Unchanged(Empty)}

\* the slow path answering an illegal deduced move like the fast path does
SlowPath_IllegalIsInvalid(incoming) ==
    LET positions == parse_positions(incoming)
        current_board_snapshot == get_piece_snapshot(board)
    IN IF positions = current_board_snapshot THEN Rejected(positions)
       ELSE IF is_drastic_change(positions, current_board_snapshot)
       THEN Rejected(positions)
       ELSE LET move == deduce_move_from_snapshot(positions, current_board_snapshot)
            IN IF move = None THEN Rejected(positions)
               ELSE IF from_uci(move) # None /\ is_legal(board, from_uci(move)[1])
               THEN ApplyAndReply(from_uci(move)[1])
               ELSE {Unchanged(InvalidSignal)}

\* lines 79-118: the body is read as an occupancy snapshot
\* (_parse_positions never raises on a text, so line 82 is never taken)
SlowPath(incoming) ==
    LET positions == parse_positions(incoming)
        current_board_snapshot == get_piece_snapshot(board)
    IN IF positions = current_board_snapshot THEN Rejected(positions)
       ELSE IF is_drastic_change(positions, current_board_snapshot)
       THEN Rejected(positions)
       ELSE LET move == deduce_move_from_snapshot(positions, current_board_snapshot)
            IN IF move = None THEN Rejected(positions)
               ELSE IF from_uci(move) # None /\ is_legal(board, from_uci(move)[1])
               THEN ApplyAndReply(from_uci(move)[1])
               ELSE Rejected(positions)

\* process_move answering a text that lists no square as an error
process_move_StrictTokens(incoming) ==
    IF ~game_active THEN {Unchanged(TerminalSignal)}
    ELSE IF is_uci_move(incoming) THEN FastPath(incoming)
    ELSE IF parse_positions(incoming) = [white |-> <<>>, black |-> <<>>]
    THEN {Unchanged(InvalidSignal)}
    ELSE SlowPath(incoming)

\* process_move without the check of lines 54-55
process_move_NoActiveCheck(incoming) ==
    IF is_uci_move(incoming) THEN FastPath(incoming) ELSE SlowPath(incoming)

\* ChessBrain.process_move: the possible outcomes
process_move(incoming) ==
    IF ~game_active THEN {Unchanged(TerminalSignal)}
    ELSE IF is_uci_move(incoming) THEN FastPath(incoming)
    ELSE SlowPath(incoming)

Commit(op, body, o) ==
    /\ board' = o.board
    /\ app_color' = o.app_color
    /\ game_active' = o.game_active
    /\ last_position_snapshot' = o.last_position_snapshot
    /\ first_move_received' = o.first_move_received
    /\ request' = [op |-> op, body |-> body]
    /\ response' = o.response
    /\ queried' = o.queried
    /\ pushed' = o.pushed
    /\ UNCHANGED <<inflight, timers, call>>

(***************************************************************************)
(* The request bodies enumerated.                                          *)
(***************************************************************************)
StartBodies ==
    {<<"w", "h", "i", "t", "e">>,
     <<"b", "l", "a", "c", "k">>,
     <<" ", "W", "h", "i", "t", "e">>,
     <<"B", "L", "A", "C", "K", "\n">>,
     <<"b", "l", "u", "e">>,
     <<>>}

Join(l, sep) ==
    LET RECURSIVE J(_)
        J(i) == IF i > Len(l) THEN <<>>
                ELSE (IF i > 1 THEN sep ELSE <<>>) \o l[i] \o J(i + 1)
    IN J(1)

\* the body the external party sends for an occupancy (line 279):
\* white:sq,sq,... and black:sq,sq,... joined by sep
FormatSnapshot(snap, sep) ==
    WhitePrefix \o Join(snap.white, <<",">>) \o sep
      \o BlackPrefix \o Join(snap.black, <<",">>)

\* the occupancy the sensors report when the piece on m.from is put on m.to
\* (the move itself when it is legal, the bare relocation when it is not)
OccupancyAfter(b, m) ==
    IF is_legal(b, m) THEN get_piece_snapshot(push(b, m))
    ELSE get_piece_snapshot(
           [b EXCEPT !.pieces = [s \in Squares |->
                                   IF s = m.to THEN b.pieces[m.from]
                                   ELSE IF s = m.from THEN "." ELSE b.pieces[s]]])

\* snap with one more square listed for colour c
WithExtra(snap, c, n) ==
    IF c = WHITE THEN [snap EXCEPT !.white = sorted(Append(snap.white, n))]
    ELSE [snap EXCEPT !.black = sorted(Append(snap.black, n))]

\* snap with the square n no longer listed (the piece on it lifted)
WithoutSquare(snap, n) ==
    [white |-> SelectSeq(snap.white, LAMBDA x : x # n),
     black |-> SelectSeq(snap.black, LAMBDA x : x # n)]

BookMoves(b) == {from_uci(t)[1] : t \in BookTexts(b)}

\* coordinate-shaped bodies beside the book: upper case and padded, never
\* legal, source equal to destination, a promotion no pawn can make
ShapedTexts ==
    {<<" ", "F", "2", "F", "3">>,
     <<"e", "2", "e", "5">>,
     <<"e", "1", "e", "1">>,
     <<"e", "7", "e", "8", "q">>}

\* bodies of 4 or 5 characters outside the board ranges
MalformedTexts ==
    {<<"e", "2", "e", "9">>,
     <<"i", "2", "e", "4">>,
     <<"e", "7", "e", "8", "k">>}

\* bodies that hold no white: or black: part
NoTokenTexts ==
    {<<"h", "e", "l", "l", "o">>}

SnapshotBodies(b) ==
    LET cur == get_piece_snapshot(b)
        moved == {OccupancyAfter(b, m) : m \in {x \in BookMoves(b) : b.pieces[x.from] # "."}}
    IN {FormatSnapshot(cur, <<" ">>), FormatSnapshot(cur, <<";">>)}
         \cup {FormatSnapshot(sn, <<" ">>) : sn \in moved}
         \cup {FormatSnapshot(WithExtra(sn, WHITE, <<"c", "4">>), <<";">>) : sn \in moved}
         \cup {FormatSnapshot(WithExtra(sn, BLACK, <<"f", "5">>), <<" ">>) : sn \in moved}
         \cup {FormatSnapshot(WithoutSquare(cur, square_name(m.from)), <<" ">>)
                 : m \in BookMoves(b)}
         \cup {FormatSnapshot(WithExtra(cur, BLACK, <<"e", "1">>), <<";">>)}

MoveBodies(b) ==
    BookTexts(b) \cup ShapedTexts \cup MalformedTexts \cup NoTokenTexts
      \cup SnapshotBodies(b)

(***************************************************************************)
(* The requests: POST /start and POST /move (lines 258-270), each run to   *)
(* its response.                                                           *)
(***************************************************************************)
Start ==
    \E body \in StartBodies :
        \E o \in start_game(strip(body)) : Commit("start", body, o)

Submit ==
    /\ board.ply < MaxPly
    /\ \E body \in MoveBodies(board) :
          \E o \in process_move(strip(body)) : Commit("move", body, o)

Next == Start \/ Submit

Spec == Init /\ [][Next]_vars

(***************************************************************************)
(* The helpers of lines 147-253 on their own: a text and the snapshot of   *)
(* the current position go in, _parse_positions reads the text, then       *)
(* _is_drastic_change and _deduce_move_from_snapshot compare what it read  *)
(* with the current snapshot (as lines 80-95 do in turn).                  *)
(***************************************************************************)
MaxSquares == 3
MaxCopies == 4

\* the squares the snapshots list beside the castling squares
PureSquares ==
    <<<<"d", "5">>, <<"e", "5">>, <<"d", "6">>, <<"e", "4">>, <<"c", "3">>>>

\* who is reported on each of these squares; a text can name a square for
\* both colours, a position holds one piece on a square at most
Colourings(marks) == [1..MaxSquares -> marks]

Listed(colouring, c) ==
    SelectSeq(SubSeq(PureSquares, 1, MaxSquares),
              LAMBDA n : \E i \in 1..MaxSquares :
                            PureSquares[i] = n /\ colouring[i] \in {c, "both"})

\* the two kings on their home squares and the pieces of the colouring
SnapshotOf(colouring) ==
    [white |-> sorted(<<<<"e", "1">>>> \o Listed(colouring, WHITE)),
     black |-> sorted(<<<<"e", "8">>>> \o Listed(colouring, BLACK))]

\* the four castling deltas of lines 228-235
CastlingDeltas ==
    {[side |-> WHITE, removed |-> {<<"e", "1">>, <<"h", "1">>},
      added |-> {<<"g", "1">>, <<"f", "1">>}, move |-> <<"e", "1", "g", "1">>],
     [side |-> WHITE, removed |-> {<<"e", "1">>, <<"a", "1">>},
      added |-> {<<"c", "1">>, <<"d", "1">>}, move |-> <<"e", "1", "c", "1">>],
     [side |-> BLACK, removed |-> {<<"e", "8">>, <<"h", "8">>},
      added |-> {<<"g", "8">>, <<"f", "8">>}, move |-> <<"e", "8", "g", "8">>],
     [side |-> BLACK, removed |-> {<<"e", "8">>, <<"a", "8">>},
      added |-> {<<"c", "8">>, <<"d", "8">>}, move |-> <<"e", "8", "c", "8">>]}

\* the names of S as a list, n of them k times over
ListOf(S, n, k) ==
    sorted(SelectSeq(NamesInOrder, LAMBDA x : x \in S) \o [i \in 1..(k - 1) |-> n])

\* snap with the squares of S listed in addition for colour c, the square n
\* among them k times over (a text may repeat a square)
WithSquares(snap, c, S, n, k) ==
    IF c = WHITE THEN [snap EXCEPT !.white = sorted(snap.white \o ListOf(S, n, k))]
    ELSE [snap EXCEPT !.black = sorted(snap.black \o ListOf(S, n, k))]

PureInput(new, cur, sep) ==
    [NoCall EXCEPT !.stage = "text", !.txt = FormatSnapshot(new, sep), !.current_pos = cur]

\* the texts and current snapshots the helpers are applied to: every
\* occupancy of the squares beside the castling squares against every
\* other, and every castling delta on top of every such occupancy, the
\* square the king lands on listed up to MaxCopies times
PureInputs ==
    {PureInput(SnapshotOf(n), SnapshotOf(c), <<";">>)
       : n \in Colourings({"none", WHITE, BLACK, "both"}),
         c \in Colourings({"none", WHITE, BLACK})}
      \cup {PureInput(WithSquares(WithoutSquare(SnapshotOf(c), SubSeq(d.move, 1, 2)),
                                  d.side, d.added, SubSeq(d.move, 3, 4), k),
                      WithSquares(SnapshotOf(c), d.side,
                                  d.removed \ {SubSeq(d.move, 1, 2)}, SubSeq(d.move, 3, 4), 1),
                      <<" ">>)
             : c \in Colourings({"none", WHITE, BLACK}), d \in CastlingDeltas, k \in 1..MaxCopies}

InitPure ==
    /\ board = StartingBoard
    /\ app_color = NoColor
    /\ game_active = FALSE
    /\ last_position_snapshot = None
    /\ first_move_received = FALSE
    /\ request = [op |-> "init", body |-> <<>>]
    /\ response = <<>>
    /\ queried = <<>>
    /\ pushed = <<>>
    /\ inflight = [t \in Threads |-> Idle]
    /\ timers = 0
    /\ call \in PureInputs

\* line 80
Parse ==
    /\ call.stage = "text"
    /\ call' = [call EXCEPT !.stage = "parsed", !.new_pos = parse_positions(call.txt)]
    /\ UNCHANGED <<session, request, response, queried, pushed, inflight, timers>>

\* line 91
Guard ==
    /\ call.stage = "parsed"
    /\ call' = [call EXCEPT !.stage = "guarded",
                            !.drastic = is_drastic_change(call.new_pos, call.current_pos)]
    /\ UNCHANGED <<session, request, response, queried, pushed, inflight, timers>>

\* line 95
Deduce ==
    /\ call.stage = "guarded"
    /\ call' = [call EXCEPT !.stage = "deduced",
                            !.move = deduce_move_from_snapshot(call.new_pos, call.current_pos)]
    /\ UNCHANGED <<session, request, response, queried, pushed, inflight, timers>>

NextPure == Parse \/ Guard \/ Deduce

SpecPure == InitPure /\ [][NextPure]_vars

(***************************************************************************)
(* Late in a game: the session as a long game leaves it, with few pieces   *)
(* on the board, which the games above do not reach.  The session is the   *)
(* one after the engine's reply to the external party's 40th move.         *)
(***************************************************************************)
MaxLateMoves == 2

\* the board with the pieces placed (square name, symbol), after 80 plies
BoardWith(placed, turn) ==
    [pieces |-> [s \in Squares |->
                    IF \E x \in placed : parse_square(x[1]) = s
                    THEN (CHOOSE x \in placed : parse_square(x[1]) = s)[2]
                    ELSE "."],
     turn |-> turn,
     castling |-> {},
     ep |-> NoSquare,
     ply |-> 80]

\* the positions the engine was asked about, white to move: the bare kings,
\* and king and pawn against king
LateBoards ==
    {BoardWith({<<<<"e", "1">>, "K">>, <<<<"e", "8">>, "k">>}, WHITE),
     BoardWith({<<<<"e", "1">>, "K">>, <<<<"e", "2">>, "P">>, <<<<"e", "8">>, "k">>}, WHITE)}

InitLate ==
    /\ \E before \in LateBoards : \E r \in get_best_move(before, TRUE) :
          /\ board = r.board
          /\ last_position_snapshot = <<get_piece_snapshot(before)>>
    /\ app_color = WHITE
    /\ game_active = TRUE
    /\ first_move_received = FALSE
    /\ request = [op |-> "init", body |-> <<>>]
    /\ response = <<>>
    /\ queried = <<>>
    /\ pushed = <<>>
    /\ inflight = [t \in Threads |-> Idle]
    /\ timers = 0
    /\ call = NoCall

\* the coordinate texts of the king steps of the side to move
KingTexts(b) ==
    {square_name(KingSquare(b.pieces, b.turn)) \o square_name(s)
       : s \in {x \in Squares :
                  /\ x # KingSquare(b.pieces, b.turn)
                  /\ Abs(FileOf(x) - FileOf(KingSquare(b.pieces, b.turn))) <= 1
                  /\ Abs(RankOf(x) - RankOf(KingSquare(b.pieces, b.turn))) <= 1}}

\* bodies without a white: or black: part: a word, the empty body, a colour
\* name without its colon
LateNoTokenTexts ==
    NoTokenTexts \cup {<<>>, <<"w", "h", "i", "t", "e", " ", "e", "1">>}

LateBodies(b) ==
    KingTexts(b) \cup LateNoTokenTexts
      \cup {FormatSnapshot(get_piece_snapshot(b), <<" ">>),
            FormatSnapshot(WithoutSquare(get_piece_snapshot(b),
                                         square_name(KingSquare(b.pieces, b.turn))), <<";">>)}

\* POST /move late in the game, for MaxLateMoves moves of the external party
SubmitLate ==
    /\ board.ply - 80 < 2 * MaxLateMoves
    /\ \E body \in LateBodies(board) :
          \E o \in process_move(strip(body)) : Commit("move", body, o)

NextLate == SubmitLate

SpecLate == InitLate /\ [][NextLate]_vars

(***************************************************************************)
(* Requests served concurrently.  The server runs each request on a thread *)
(* of its own and ChessBrain holds no lock, so the statements of two       *)
(* requests interleave.  A request is taken here in two steps, around the  *)
(* one long wait it has, the engine's search (line 136, two seconds): all  *)
(* it does up to handing the position to the engine, and all it does from  *)
(* the engine's answer on.  Every run of these steps is a run of the       *)
(* code; the code has more (it can be interrupted between any two          *)
(* statements, and the two threads share one engine process).  The         *)
(* notification threads of lines 68, 113 and 143 run beside them.          *)
(***************************************************************************)
MaxConcurrentPly == 4
MaxTimers == 1

\* the response of a request that has not returned yet
Pending == <<"pending">>

\* lines 58-109: the move process_move accepts from the body on the current
\* board, as <<move>>, or None
accepted_move(incoming) ==
    IF is_uci_move(incoming)
    THEN LET move == from_uci(lower(strip(incoming)))
         IN IF move # None /\ is_legal(board, move[1]) THEN move ELSE None
    ELSE LET positions == parse_positions(incoming)
             current_board_snapshot == get_piece_snapshot(board)
         IN IF positions = current_board_snapshot THEN None
            ELSE IF is_drastic_change(positions, current_board_snapshot) THEN None
            ELSE LET move == deduce_move_from_snapshot(positions, current_board_snapshot)
                 IN IF move = None THEN None
                    ELSE IF from_uci(move) # None /\ is_legal(board, from_uci(move)[1])
                    THEN from_uci(move)
                    ELSE None

\* lines 75, 77 and 88-109: what a body that gives no legal move is answered
refusal(incoming) == IF is_uci_move(incoming) THEN InvalidSignal ELSE Empty

\* the request of thread t returns resp; the session is as the step left it
Returns(t, op, body, resp) ==
    /\ request' = [op |-> op, body |-> body]
    /\ response' = resp
    /\ inflight' = [inflight EXCEPT ![t] = Idle]

\* the request of thread t has handed the position fen to the engine (line
\* 135) and waits for its answer (line 136)
Waits(t, op, body, fen) ==
    /\ request' = [op |-> op, body |-> body]
    /\ response' = Pending
    /\ inflight' = [inflight EXCEPT ![t] = [pc |-> "engine", op |-> op, body |-> body, fen |-> fen]]

\* a new request is served by the first thread that is free
FirstIdle(t) ==
    /\ inflight[t].pc = "idle"
    /\ \A u \in Threads : u < t => inflight[u].pc # "idle"

\* threading.Thread(target=self._delayed_game_over).start(), at most
\* MaxTimers of these threads sleeping at a time
Schedule ==
    /\ timers < MaxTimers
    /\ timers' = timers + 1

\* POST /start on thread t: lines 35-46 and 135
BeginStart(t) ==
    /\ FirstIdle(t)
    /\ \E body \in {WhiteText, BlackText} :
          /\ queried' = <<>> /\ pushed' = <<>>
          /\ UNCHANGED <<timers, call>>
          /\ IF ~ValidColor(lower(strip(body)))
             THEN /\ UNCHANGED session
                  /\ Returns(t, "start", body, InvalidSignal)
             ELSE /\ app_color' = IF lower(strip(body)) = WhiteText THEN WHITE ELSE BLACK
                  /\ board' = StartingBoard
                  /\ game_active' = TRUE
                  /\ first_move_received' = FALSE
                  /\ last_position_snapshot' = <<get_piece_snapshot(StartingBoard)>>
                  /\ IF OpensGame(app_color')
                     THEN Waits(t, "start", body, StartingBoard)
                     ELSE Returns(t, "start", body, Empty)

\* the external party plays the shorter game
ConcurrentTexts(b) == IF Len(FoolsMate) > b.ply THEN {FoolsMate[b.ply + 1]} ELSE {}

\* POST /move on thread t: lines 54-71 (or 54-116) and 135
BeginMove(t) ==
    /\ FirstIdle(t)
    /\ board.ply < MaxConcurrentPly
    /\ \E body \in ConcurrentTexts(board) :
          /\ queried' = <<>>
          /\ UNCHANGED <<app_color, first_move_received, call>>
          /\ IF ~game_active
             THEN /\ UNCHANGED <<board, game_active, last_position_snapshot, timers>>
                  /\ pushed' = <<>>
                  /\ Returns(t, "move", body, TerminalSignal)
             ELSE \E move \in {accepted_move(strip(body))} :
                  IF move = None
                  THEN /\ UNCHANGED <<board, game_active, last_position_snapshot, timers>>
                       /\ pushed' = <<>>
                       /\ Returns(t, "move", body, refusal(strip(body)))
                  ELSE /\ board' = push(board, move[1])
                       /\ last_position_snapshot' = <<get_piece_snapshot(board')>>
                       /\ pushed' = move
                       /\ IF is_checkmate(board')
                          THEN /\ game_active' = FALSE
                               /\ Schedule
                               /\ Returns(t, "move", body, Empty)
                          ELSE /\ UNCHANGED <<game_active, timers>>
                               /\ Waits(t, "move", body, board')

\* the notification thread changing the session when it fires
delayed_game_over_EndsSession ==
    /\ timers > 0
    /\ timers' = timers - 1
    /\ game_active' = FALSE
    /\ request' = [op |-> "timer", body |-> <<>>]
    /\ UNCHANGED <<board, app_color, last_position_snapshot, first_move_received,
                   response, queried, pushed, inflight, call>>

\* ChessBrain._delayed_game_over, when its sleep is over: it prints
delayed_game_over ==
    /\ timers > 0
    /\ timers' = timers - 1
    /\ request' = [op |-> "timer", body |-> <<>>]
    /\ UNCHANGED <<session, response, queried, pushed, inflight, call>>

\* lines 136-145 and the return of lines 47, 73 or 118 on thread t: the
\* engine answers for the position it was given, and the answer is tested
\* and pushed on the board as it is now
EngineAnswers(t) ==
    /\ inflight[t].pc = "engine"
    /\ \E best_move \in EngineReplies(inflight[t].fen) :
          /\ queried' = <<inflight[t].fen>>
          /\ UNCHANGED <<app_color, first_move_received, last_position_snapshot, call>>
          /\ IF best_move # None /\ is_legal(board, from_uci(best_move)[1])
             THEN /\ board' = push(board, from_uci(best_move)[1])
                  /\ pushed' = from_uci(best_move)
                  /\ IF is_checkmate(board')
                     THEN game_active' = FALSE /\ Schedule
                     ELSE UNCHANGED <<game_active, timers>>
                  /\ Returns(t, inflight[t].op, inflight[t].body, best_move)
             ELSE /\ UNCHANGED <<board, game_active, timers>>
                  /\ pushed' = <<>>
                  /\ Returns(t, inflight[t].op, inflight[t].body,
                             IF inflight[t].op = "start" THEN TerminalSignal ELSE Empty)

InitConcurrent == Init

NextConcurrent ==
    \/ \E t \in Threads : BeginStart(t)
    \/ \E t \in Threads : BeginMove(t)
    \/ \E t \in Threads : EngineAnswers(t)
    \/ delayed_game_over

SpecConcurrent == InitConcurrent /\ [][NextConcurrent]_vars

(***************************************************************************)
(* The claims.  A step of the specification is one request run to its      *)
(* response: request' is the request served, the unprimed variables are    *)
(* the session before it, the primed ones the session after it.            *)
(***************************************************************************)
SubmittedMove(body) == from_uci(lower(strip(body)))

\* body is a coordinate move that is legal on board b
LegalCoordinate(b, body) ==
    /\ is_uci_move(body)
    /\ SubmittedMove(body) # None
    /\ is_legal(b, SubmittedMove(body)[1])

NothingDone == UNCHANGED session /\ queried' = <<>> /\ pushed' = <<>>

\* the move m submitted on the current board was pushed, the stored snapshot
\* refreshed and nothing else pushed
OnlyMoveApplied(m) ==
    /\ pushed' = <<m>>
    /\ board' = push(board, m)
    /\ last_position_snapshot' = <<get_piece_snapshot(board')>>

\* the move m submitted on the current board was pushed and the stored
\* snapshot refreshed, the engine was asked about the position reached, and
\* its reply r was legal there and is pushed too
MoveAndReplyApplied(m, r) ==
    /\ queried' = <<push(board, m)>>
    /\ last_position_snapshot' = <<get_piece_snapshot(queried'[1])>>
    /\ from_uci(r) # None
    /\ is_legal(queried'[1], from_uci(r)[1])
    /\ pushed' = <<m, from_uci(r)[1]>>
    /\ board' = push(queried'[1], from_uci(r)[1])

\* C1 (as amended): on an active session a legal coordinate move is applied
\* as exactly one ply, and submit returns either a legal engine reply, which
\* it has applied too, or Empty; Empty only if the submitted move produced
\* checkmate or left a position without a legal move (stalemate), for which
\* the engine yields no result.
C1_LegalMoveAppliedAndAnswered ==
    [][(request'.op = "move" /\ game_active /\ LegalCoordinate(board, request'.body))
         => \/ /\ response' = Empty
               /\ OnlyMoveApplied(SubmittedMove(request'.body)[1])
               /\ \/ is_checkmate(board') /\ queried' = <<>>
                  \/ ~has_legal_move(board') /\ queried' = <<board'>>
            \/ /\ response' # Empty
               /\ MoveAndReplyApplied(SubmittedMove(request'.body)[1], response')]_vars

\* C1 (as stated): ... returns Empty only if the submitted move produced
\* checkmate.
C1_EmptyOnlyOnCheckmate ==
    [][(request'.op = "move" /\ game_active /\ LegalCoordinate(board, request'.body))
         => \/ /\ response' = Empty
               /\ OnlyMoveApplied(SubmittedMove(request'.body)[1])
               /\ is_checkmate(board')
            \/ /\ response' # Empty
               /\ MoveAndReplyApplied(SubmittedMove(request'.body)[1], response')]_vars

\* a legal coordinate move was answered with Empty on a stalemate
C1_Witness ==
    /\ request.op = "move" /\ is_uci_move(request.body)
    /\ Len(pushed) = 1 /\ response = Empty
    /\ game_active /\ ~InCheck(board.pieces, board.turn) /\ ~has_legal_move(board)

\* C2: on an active session a body of coordinate-move shape that is not a
\* legal move of the current position is answered InvalidSignal; position,
\* active flag, automated colour and stored snapshot stay as they were and
\* the engine is not queried.
C2_IllegalMoveInvalid ==
    [][(/\ request'.op = "move" /\ game_active
        /\ is_uci_move(request'.body)
        /\ ~LegalCoordinate(board, request'.body))
         => (response' = InvalidSignal /\ NothingDone)]_vars

\* a book move that is not legal in the position reached was refused
C2_Witness ==
    /\ request.op = "move" /\ game_active /\ board.ply > 0
    /\ request.body \in {g[i] : g \in Games, i \in 1..4}
    /\ response = InvalidSignal

\* C3 (as stated): on an active session a malformed coordinate move (4 or 5
\* characters with a file, rank or promotion letter outside the board
\* ranges) is answered InvalidSignal with no state change.
C3_MalformedMoveInvalid ==
    [][(request'.op = "move" /\ game_active /\ request'.body \in MalformedTexts)
         => (response' = InvalidSignal /\ NothingDone)]_vars

\* C3 (as amended): on an active session a text of 4 or 5 characters with a
\* file, rank or promotion letter outside the board ranges has not the shape
\* of a coordinate move; submit reads it as a snapshot, which lists no
\* square, and answers Empty with no state change.
C3_MalformedMoveReadAsSnapshot ==
    [][(request'.op = "move" /\ game_active /\ request'.body \in MalformedTexts)
         => /\ parse_positions(request'.body) = [white |-> <<>>, black |-> <<>>]
            /\ response' = Empty
            /\ NothingDone]_vars

\* a destination on rank 9 was submitted during a game and answered Empty
C3_Witness ==
    /\ request.op = "move" /\ request.body = <<"e", "2", "e", "9">>
    /\ game_active /\ board.ply > 0
    /\ response = Empty

\* C4: while the session is inactive every submit, whatever its body, is
\* answered TerminalSignal and changes nothing, and only a start with a
\* valid colour makes the session active again.
C4_InactiveTerminal ==
    [][~game_active
         => /\ request'.op = "move" => (response' = TerminalSignal /\ NothingDone)
            /\ game_active' => (/\ request'.op = "start"
                                /\ lower(strip(request'.body)) \in {WhiteText, BlackText})]_vars

\* a snapshot was submitted after a checkmate and answered TerminalSignal
C4_Witness ==
    /\ request.op = "move" /\ ~is_uci_move(request.body)
    /\ response = TerminalSignal
    /\ ~game_active /\ is_checkmate(board)

\* C5: Idle -> Active -> Checkmated.  The flag turns true only by a start
\* with a valid colour and false only when a move just applied leaves a
\* checkmate; an applied move leaves the session active exactly when it does
\* not produce checkmate; a start with a valid colour, in any state, resets
\* the position to the initial one (on which the engine's opening move, if
\* any, is applied) and leaves the session active.
C5_StateMachine ==
    [][/\ (~game_active /\ game_active')
          => (request'.op = "start" /\ lower(strip(request'.body)) \in {WhiteText, BlackText})
       /\ (game_active /\ ~game_active')
          => (request'.op = "move" /\ pushed' # <<>> /\ is_checkmate(board'))
       /\ pushed' # <<>> => (game_active' <=> ~is_checkmate(board'))
       /\ (request'.op = "start" /\ lower(strip(request'.body)) \in {WhiteText, BlackText})
          => /\ game_active'
             /\ \/ pushed' = <<>> /\ board' = StartingBoard
                \/ Len(pushed') = 1 /\ board' = push(StartingBoard, pushed'[1])]_vars

\* the engine's reply to a submitted move gave checkmate and ended the session
C5_Witness ==
    /\ request.op = "move" /\ Len(pushed) = 2
    /\ is_checkmate(board) /\ ~game_active

\* C6: a start with a valid colour returns a first move or Empty, never
\* TerminalSignal.  For white the engine is queried on the initial position
\* and exactly its reply is applied and returned; for black no ply is
\* applied and Empty is returned; the session is active afterwards.
C6_StartOpens ==
    (request.op = "start" /\ lower(strip(request.body)) \in {WhiteText, BlackText})
      => /\ game_active
         /\ response # TerminalSignal
         /\ IF lower(strip(request.body)) = WhiteText
            THEN /\ app_color = WHITE
                 /\ queried = <<StartingBoard>>
                 /\ Len(pushed) = 1
                 /\ is_legal(StartingBoard, pushed[1])
                 /\ response = uci(pushed[1])
                 /\ board = push(StartingBoard, pushed[1])
            ELSE /\ app_color = BLACK
                 /\ queried = <<>> /\ pushed = <<>>
                 /\ response = Empty
                 /\ board = StartingBoard

\* a start for white returned the engine's opening move
C6_Witness ==
    /\ request.op = "start" /\ app_color = WHITE
    /\ Len(pushed) = 1 /\ response = uci(pushed[1]) /\ board.ply = 1

\* C7: a start with a colour other than white or black is answered
\* InvalidSignal and changes nothing, whatever the state of the session.
C7_InvalidColorNoChange ==
    [][(request'.op = "start" /\ lower(strip(request'.body)) \notin {WhiteText, BlackText})
         => (response' = InvalidSignal /\ NothingDone)]_vars

\* a start with an invalid colour was refused during a running game
C7_Witness ==
    /\ request.op = "start" /\ response = InvalidSignal
    /\ game_active /\ board.ply > 1

\* the bodies that list exactly the occupancy of board b
OccupancyBodies(b) ==
    {FormatSnapshot(sn, sep) : sn \in {get_piece_snapshot(b)}, sep \in {<<" ">>, <<";">>}}

\* C8: on an active session a snapshot that lists exactly the current
\* occupancy is answered Empty and nothing is done: no ply, no engine query,
\* no field changed; so it is in every reachable position and on every
\* resubmission.
C8_SameSnapshotNoop ==
    [][(/\ request'.op = "move" /\ game_active
        /\ startswith(request'.body, WhitePrefix)
        /\ request'.body \in OccupancyBodies(board))
         => (response' = Empty /\ NothingDone)]_vars

\* the current occupancy was submitted in the middle of a game, after the
\* engine's reply had changed the position behind the stored snapshot
C8_Witness ==
    /\ request.op = "move" /\ game_active /\ response = Empty
    /\ board.ply > 2
    /\ last_position_snapshot # <<get_piece_snapshot(board)>>
    /\ request.body \in OccupancyBodies(board)

\* the state is the one a submit that applied a move has left, and the next
\* request submits the occupancy of its position
RoundTrip ==
    /\ request.op = "move" /\ pushed # <<>>
    /\ request'.op = "move"
    /\ startswith(request'.body, WhitePrefix)
    /\ request'.body \in OccupancyBodies(board)

\* C9 (as stated): the snapshot of the position a submit has left after
\* applying a move (also one that ended the game by checkmate), fed back
\* into submit, yields Empty with no further mutation.
C9_RoundTripEmpty ==
    [][RoundTrip => (response' = Empty /\ NothingDone)]_vars

\* C9 (as amended): that snapshot fed back into submit mutates nothing; it
\* yields Empty while the session is active, and TerminalSignal when the
\* move applied (the submitted one or the engine's reply) gave checkmate.
C9_RoundTripNoMutation ==
    [][RoundTrip
         => /\ NothingDone
            /\ response' = IF is_checkmate(board) THEN TerminalSignal ELSE Empty]_vars

\* the occupancy after the mating move was fed back and answered TerminalSignal
C9_Witness ==
    /\ request.op = "move" /\ response = TerminalSignal
    /\ is_checkmate(board)
    /\ request.body \in OccupancyBodies(board)

\* the numbers of squares removed and added, over both colours, from cur to new
DeltaCounts(new, cur) ==
    <<Cardinality({n \in ToSet(cur.white) : \A i \in 1..Len(new.white) : new.white[i] # n})
        + Cardinality({n \in ToSet(cur.black) : \A i \in 1..Len(new.black) : new.black[i] # n}),
      Cardinality({n \in ToSet(new.white) : \A i \in 1..Len(cur.white) : cur.white[i] # n})
        + Cardinality({n \in ToSet(new.black) : \A i \in 1..Len(cur.black) : cur.black[i] # n})>>

\* body is a snapshot with one square removed and two added against board b
OneRemovedTwoAdded(b, body) ==
    /\ startswith(body, WhitePrefix)
    /\ \E new \in {parse_positions(strip(body))} : \E cur \in {get_piece_snapshot(b)} :
           DeltaCounts(new, cur) = <<1, 2>>

\* C10: on an active session a snapshot whose delta against the current
\* position has one square removed and two added, over both colours, is
\* answered Empty and nothing is done, also when part of the delta is the
\* pattern of a legal move.
C10_DrasticRejected ==
    [][(request'.op = "move" /\ game_active /\ OneRemovedTwoAdded(board, request'.body))
         => (response' = Empty /\ NothingDone)]_vars

\* such a snapshot was submitted that holds the pattern of a legal quiet
\* move of the side to move beside a square added for the other colour
C10_Witness ==
    /\ request.op = "move" /\ game_active /\ response = Empty /\ pushed = <<>>
    /\ OneRemovedTwoAdded(board, request.body)
    /\ \E m \in BookMoves(board) : \E new \in {parse_positions(strip(request.body))} :
          /\ is_legal(board, m) /\ board.pieces[m.to] = "."
          /\ LET mine == IF board.turn = WHITE THEN new.white ELSE new.black
                 theirs == IF board.turn = WHITE THEN new.black ELSE new.white
             IN /\ square_name(m.to) \in ToSet(mine)
                /\ square_name(m.from) \notin ToSet(mine)
                /\ Len(theirs) = Cardinality({x \in Squares :
                                   ColorOf(board.pieces[x]) = Other(board.turn)}) + 1


\* the snapshot new tells no legal move against the snapshot cur of board b:
\* it equals cur, is a drastic change, matches no pattern, or the move it
\* matches is not legal on b
Unresolvable(b, new, cur) ==
    \/ new = cur
    \/ is_drastic_change(new, cur)
    \/ \E move \in {deduce_move_from_snapshot(new, cur)} :
          \/ move = None
          \/ from_uci(move) = None
          \/ ~is_legal(b, from_uci(move)[1])

\* C12: on an active session a body that has not the shape of a coordinate
\* move is never answered InvalidSignal; and when the snapshot parsed from
\* it equals the current one, is a drastic change, matches no inference
\* pattern or gives a move that is illegal in the current position, submit
\* answers Empty and leaves every field of the session as it was (so any
\* sequence of such submissions leaves the session as it was).
C12_SnapshotNeverError ==
    [][(request'.op = "move" /\ game_active /\ ~is_uci_move(request'.body))
         => /\ response' # InvalidSignal
            /\ \E new \in {parse_positions(strip(request'.body))} :
               \E cur \in {get_piece_snapshot(board)} :
                  Unresolvable(board, new, cur) => (response' = Empty /\ NothingDone)]_vars

\* a snapshot was answered Empty that shows a piece of the side to move on
\* another square, where it cannot legally go
C12_Witness ==
    /\ request.op = "move" /\ game_active /\ ~is_uci_move(request.body)
    /\ response = Empty /\ pushed = <<>>
    /\ \E new \in {parse_positions(strip(request.body))} :
       \E cur \in {get_piece_snapshot(board)} :
          /\ new # cur /\ ~is_drastic_change(new, cur)
          /\ \E move \in {deduce_move_from_snapshot(new, cur)} :
                /\ move # None /\ from_uci(move) # None
                /\ ~is_legal(board, from_uci(move)[1])


\* C19 (as stated): whenever the session is active and no request is in
\* progress, the side to move is the external party's colour, the opposite
\* of the automated player's colour.
C19_ExternalPartyToMove ==
    game_active => board.turn = Other(app_color)

\* C19 (as amended): whenever the session is active and no request is in
\* progress, the side to move is the external party's colour, or it is the
\* automated side and the position has no legal move: the external party's
\* last move stalemated it and the engine yielded no reply.  In no case is
\* a move of the automated side's pieces open to the external party.
C19_ExternalPartyToMoveOrStalemate ==
    game_active
      => \/ board.turn = Other(app_color)
         \/ /\ board.turn = app_color
            /\ ~has_legal_move(board)
            /\ ~InCheck(board.pieces, board.turn)

\* a submit applied the external party's move and the engine's reply and the
\* session went on with the external party to move
C19_Witness ==
    /\ request.op = "move" /\ Len(pushed) = 2 /\ game_active
    /\ board.turn = Other(app_color) /\ board.ply > 3

\* C20: after any sequence of completed requests the session is active only
\* if the position is not checkmate, and inactive only if no valid start has
\* happened yet (no colour assigned, the position still the initial one) or
\* the last move applied gave checkmate.
C20_ActivityInvariant ==
    /\ game_active => (app_color # NoColor /\ ~is_checkmate(board))
    /\ ~game_active
         => \/ app_color = NoColor /\ board = StartingBoard
            \/ board.ply > 0 /\ is_checkmate(board)

\* the session is inactive after a start, with the position a checkmate
C20_Witness ==
    /\ ~game_active /\ app_color # NoColor
    /\ is_checkmate(board) /\ pushed # <<>>


\* no square is listed for both colours
Disjoint(snap) == ToSet(snap.white) \cap ToSet(snap.black) = {}

\* the snapshots taken of the position are disjoint: the one of the current
\* position and the stored one
PositionSnapshotsDisjoint ==
    /\ Disjoint(get_piece_snapshot(board))
    /\ last_position_snapshot # None => Disjoint(last_position_snapshot[1])

\* C15: every snapshot the system works with has no square in both the
\* white and the black set: the one parsed from a submitted text, and the
\* ones computed from the position.
C15_SnapshotsDisjoint ==
    /\ (request.op = "move" /\ response # TerminalSignal /\ ~is_uci_move(request.body))
         => Disjoint(parse_positions(strip(request.body)))
    /\ PositionSnapshotsDisjoint

(***************************************************************************)
(* The claims about the helpers, on the helpers applied on their own.      *)
(***************************************************************************)
\* the squares of colour c the text no longer lists, and those it lists anew
Removed(c) == ToSet(call.current_pos[c]) \ ToSet(call.new_pos[c])
Added(c) == ToSet(call.new_pos[c]) \ ToSet(call.current_pos[c])

\* the delta is the castling delta d and the other colour is unchanged
IsCastlingDelta(d) ==
    /\ Removed(d.side) = d.removed /\ Added(d.side) = d.added
    /\ Removed(Other(d.side)) = {} /\ Added(Other(d.side)) = {}

\* C11: for any current snapshot, if the white delta is removed {e1,h1} and
\* added {g1,f1} with the black sets unchanged, the move inferred is e1g1;
\* likewise {e1,a1}/{c1,d1} gives e1c1, and the black deltas {e8,h8}/{g8,f8}
\* and {e8,a8}/{c8,d8} with white unchanged give e8g8 and e8c8; and the
\* drastic-change guard does not stop these deltas.
C11_CastlingInferred ==
    \A d \in CastlingDeltas :
        (call.stage = "deduced" /\ IsCastlingDelta(d))
          => (call.move = d.move /\ ~call.drastic)


QuietBy(c) ==
    /\ Cardinality(Removed(c)) = 1 /\ Cardinality(Added(c)) = 1
    /\ Removed(Other(c)) = {} /\ Added(Other(c)) = {}

CaptureShapeBy(c) ==
    /\ Cardinality(Removed(c)) = 1 /\ Cardinality(Added(c)) = 1
    /\ Cardinality(Removed(Other(c))) = 1 /\ Added(Other(c)) = {}

CaptureBy(c) == CaptureShapeBy(c) /\ Added(c) = Removed(Other(c))

FromTo(c) == Only(Removed(c)) \o Only(Added(c))

\* no colour shows the removed and added squares of a castling
OutsideCastling ==
    \A d \in CastlingDeltas : ~(Removed(d.side) = d.removed /\ Added(d.side) = d.added)

\* C14: outside castling the move deduced is (removed, added) of a colour
\* when exactly one of its squares is removed and one added and the other
\* colour is unchanged; it is (mover's removed, mover's added) when the
\* mover has one removed and one added, the opponent one removed and none
\* added, and the mover's added square is the opponent's removed one; it is
\* Rejected (None) for every other delta, so also when the mover's added
\* square differs from the opponent's removed one (en-passant shape).  A
\* move deduced always has 4 characters, no promotion letter.
C14_ReferenceRule ==
    call.stage = "deduced"
      => /\ call.move # None => Len(call.move) = 4
         /\ OutsideCastling
              => /\ \A c \in {WHITE, BLACK} :
                       (QuietBy(c) \/ CaptureBy(c)) => call.move = FromTo(c)
                 /\ (\A c \in {WHITE, BLACK} : ~QuietBy(c) /\ ~CaptureBy(c))
                       => call.move = None

\* a delta of en-passant shape (the mover's new square is not the one the
\* opponent lost) was rejected
C14_Witness ==
    /\ call.stage = "deduced" /\ call.move = None
    /\ \E c \in {WHITE, BLACK} : CaptureShapeBy(c) /\ Added(c) # Removed(Other(c))


\* C16: a text without a white: or black: part parses to the empty
\* snapshot, and on an active session submit answers it Empty, applies no
\* move and changes nothing, in any position; so also with the bare kings
\* on the board, where the piece-count guard does not fire.
C16_NoTokenNoInformation ==
    [][(request'.op = "move" /\ game_active /\ request'.body \in LateNoTokenTexts)
         => /\ parse_positions(strip(request'.body)) = [white |-> <<>>, black |-> <<>>]
            /\ response' = Empty
            /\ NothingDone]_vars

\* such a text was answered Empty with the bare kings on the board, and the
\* guard did not fire on the empty snapshot
C16_Witness ==
    /\ request.op = "move" /\ request.body \in LateNoTokenTexts
    /\ game_active /\ response = Empty /\ pushed = <<>>
    /\ Cardinality({s \in Squares : board.pieces[s] # "."}) = 2
    /\ ~is_drastic_change([white |-> <<>>, black |-> <<>>], get_piece_snapshot(board))


(***************************************************************************)
(* The claims about requests served concurrently.  A step is one of the    *)
(* two halves of a request, or a notification thread firing.               *)
(***************************************************************************)
\* C13: requests that arrive concurrently run as if one at a time: while a
\* request is between its legality check and the application of the
\* engine's reply (it waits for the engine), no other request reads or
\* writes the session; the next step on the session is the waiting
\* request's own.
C13_RequestsAtomic ==
    [][\A t \in Threads :
          inflight[t].pc = "engine"
            => (request'.op = "timer" \/ inflight'[t].pc = "idle")]_vars

\* C17: the notification scheduled on checkmate is non-blocking and
\* state-free: the request that schedules it returns in the same step, the
\* notification still pending; and when it fires, whenever that is, the
\* position, the active flag, the automated colour and the stored snapshot
\* stay as they are, and no request in progress is touched.
C17_NotificationStateFree ==
    [][/\ timers' > timers => (response' # Pending /\ ~game_active' /\ is_checkmate(board'))
       /\ timers' < timers => UNCHANGED <<session, inflight, response>>]_vars

\* a notification fired after a new start had begun a new session
C17_Witness ==
    /\ request.op = "timer" /\ timers = 0
    /\ game_active /\ ~is_checkmate(board) /\ board.ply <= 1

\* C18: the engine's reply is applied only to the position it was computed
\* for: when the position is no longer the one handed to the engine (a
\* start or another submit changed it while the query was in flight), the
\* reply is not applied and does not deactivate the session.
C18_NoStaleReply ==
    [][(queried' # <<>> /\ queried'[1] # board)
         => (board' = board /\ game_active' = game_active)]_vars

=============================================================================
